---------------------------- MODULE Spec2Model ----------------------------
(***************************************************************************)
(* The RTMP transport-control loop of projects/流媒体传输/RTMP优化/         *)
(* rtmp_optimizer.py: RTMPAdaptiveBitrate, RTMPBufferManager,              *)
(* RTMPCongestionController and RTMPOptimizer.                             *)
(*                                                                         *)
(* Numbers.  Bitrates, levels and thresholds are Python ints.  The float   *)
(* expressions of the source (the products with 0.5, 0.7, 0.8, 1.1, 1.2,   *)
(* the gamma smoothing) are IEEE-754 double computations truncated by      *)
(* int(); the operators below compute those results in integer arithmetic, *)
(* rounding included, for operands in 1 .. 9000000.  packet_loss_rate is   *)
(* held in percent (10 is the float 0.10).  congestion_window is a float   *)
(* once congestion avoidance has divided by it; it is held as the exact    *)
(* fraction num/den, which has the same floor and the same order against   *)
(* the integer threshold as the double.  Wall-clock values (timestamps,    *)
(* start_time) are left out.                                               *)
(***************************************************************************)
EXTENDS Integers, Sequences, FiniteSets, TLC

VARIABLES
    \* RTMPAdaptiveBitrate
    current_bitrate, target_bitrate, stats_window, throughput_history,
    network_state, congestion_detected,
    \* RTMPBufferManager
    max_buffer_size, buffer_threshold_low, buffer_threshold_high,
    current_buffer_size, buffer_state, drop_count, buffer_utilization,
    dropped_packets,
    \* RTMPCongestionController
    congestion_window, slow_start_threshold, state, retransmissions,
    \* RTMPOptimizer
    optimization_logs,
    \* the caller's view: the last operation invoked, its argument, its result
    last_call,
    \* number of loss/ack events the transport path has delivered to an optimizer
    transport_events,
    \* threads sharing one RTMPAdaptiveBitrate: the holder of self.lock, each
    \* thread's position in the method it is executing, and that call's
    \* argument and result
    lock, pc, frame

abr_vars == <<current_bitrate, target_bitrate, stats_window, throughput_history,
              network_state, congestion_detected>>
buf_vars == <<max_buffer_size, buffer_threshold_low, buffer_threshold_high,
              current_buffer_size, buffer_state, drop_count, buffer_utilization,
              dropped_packets>>
cc_vars  == <<congestion_window, slow_start_threshold, state, retransmissions>>
thread_vars == <<lock, pc, frame>>
vars == <<abr_vars, buf_vars, cc_vars, optimization_logs, last_call,
          transport_events, thread_vars>>

---------------------------------------------------------------------------
(* Bounds of the exploration *)

\* updates fed to one bitrate controller
MaxTicks == 21
\* ticks of one optimizer
MaxOptTicks == 11
\* changes of sample kind within one fed sequence
MaxSwitches == 1
\* update_buffer_level calls on a stand-alone buffer manager
MaxLevelUpdates == 3
\* should_drop_packets calls that signal a drop
MaxDrops == 3
\* slow-start growth explored above the initial window
MaxWindowGrowth == 3
\* timeouts
MaxRetransmissions == 3
\* largest numerator of congestion_window whose next avoidance step is taken
MaxNumerator == 32767
\* loss/ack events delivered to an optimizer
MaxTransportEvents == 3
\* updates fed by the writer thread of a shared bitrate controller
MaxThreadTicks == 11
\* rounds of one loss and one ack delivered concurrently
MaxConcurrentRounds == 3
\* optimize calls of the ticking thread of a shared optimizer
MaxObservedTicks == 1
\* losses of a connection whose acks keep arriving, and the window below which
\* a loss is delivered to it
MaxLossEvents == 2
MaxLossWindow == 8

---------------------------------------------------------------------------
(* Program constants *)

min_bitrate == 500000
max_bitrate == 8000000
StatsWindowMaxlen == 100
ThroughputHistoryMaxlen == 50
DetectionSamples == 10
SmoothingSamples == 5
LossThresholdPercent == 5
RttVarianceThreshold == 100
DefaultInitialBitrate == 3000000
DefaultMaxBufferSize == 1000
InitialCongestionWindow == 1000
InitialSlowStartThreshold == 10000
RecentLogs == 10
UtilizationSamples == 10

\* constructor arguments explored: the default and one below min_bitrate
InitialBitrates == {DefaultInitialBitrate, 100000}

\* RTMPStats values fed by the caller (the fields the controllers read)
GoodSample   == [packet_loss_rate |-> 0,  rtt_ms |-> 50, throughput_bps |-> 4000000,
                 buffer_level |-> 150]
LossySample  == [packet_loss_rate |-> 10, rtt_ms |-> 50, throughput_bps |-> 4000000,
                 buffer_level |-> 850]
JitterSample == [packet_loss_rate |-> 0,  rtt_ms |-> 80, throughput_bps |-> 4000000,
                 buffer_level |-> 190]
SlowSample   == [packet_loss_rate |-> 0,  rtt_ms |-> 50, throughput_bps |-> 1000000,
                 buffer_level |-> 1000]
Samples == {GoodSample, LossySample, JitterSample, SlowSample}

\* constructor arguments explored for a stand-alone buffer manager: the default
\* and one that is not a multiple of 5
MaxBufferSizes == {DefaultMaxBufferSize, 999}

\* levels handed to a stand-alone buffer manager
Levels == {-1, 0, 150, 190, 200, 201, 799, 800, 850, 999, 1000, 1001}

---------------------------------------------------------------------------
(* Sequence and arithmetic helpers *)

Max(a, b) == IF a >= b THEN a ELSE b
Min(a, b) == IF a <= b THEN a ELSE b

\* list(q)[-n:]
LastN(q, n) == IF Len(q) <= n THEN q ELSE SubSeq(q, Len(q) - n + 1, Len(q))

RECURSIVE SumSeq(_)
SumSeq(q) == IF q = <<>> THEN 0 ELSE Head(q) + SumSeq(Tail(q))

\* faulty variant: a full deque refuses the new element
DequeAppendKeepsOldest(q, x, n) == IF Len(q) < n THEN Append(q, x) ELSE q

\* deque(maxlen=n).append(x)
DequeAppend(q, x, n) == IF Len(q) < n THEN Append(q, x) ELSE Append(Tail(q), x)

\* number of places where a fed sequence changes its sample kind
Switches(q) == Cardinality({i \in 1 .. Len(q) - 1 : q[i] # q[i + 1]})

\* largest power of two P with den * P <= num (num >= den > 0)
RECURSIVE Pow2Le(_, _, _)
Pow2Le(num, den, P) == IF den * P * 2 <= num THEN Pow2Le(num, den, P * 2) ELSE P

RECURSIVE Log2(_)
Log2(P) == IF P <= 1 THEN 0 ELSE 1 + Log2(P \div 2)

\* 2^m mod 5
Pow2Mod5(m) == CASE m % 4 = 0 -> 1 [] m % 4 = 1 -> 2 [] m % 4 = 2 -> 4 [] OTHER -> 3

\* floor of num/den for den > 0 and any num
FloorDiv(num, den) == IF num >= 0 THEN num \div den ELSE -((-num + den - 1) \div den)

\* round-half-even of num/den relative to a base of parity qpar
RoundEven(num, den, qpar) ==
    LET fl  == FloorDiv(num, den)
        rem == num - fl * den
    IN  IF 2 * rem < den THEN fl
        ELSE IF 2 * rem > den THEN fl + 1
        ELSE IF (qpar + fl) % 2 = 0 THEN fl ELSE fl + 1

---------------------------------------------------------------------------
(* The float expressions of _adjust_bitrate, as the doubles compute them.  *)
(* 0.8 is the double 4/5 + 2/(5*2^53), 1 - 0.8 the double                  *)
(* 1/5 - 2/(5*2^53), 0.7 the double 7/10 - 2/(5*2^53) and 1.2 the double   *)
(* 6/5 - 1/(5*2^52); each product and sum is rounded to nearest, ties to   *)
(* even, in the binade of its result.                                      *)

\* int(c * 0.5): halving is exact
IntTimesHalf(c) == c \div 2

\* int(c * 0.8): the product never falls below a whole 4c/5
IntTimes08(c) == (4 * c) \div 5

\* int(c * 0.7): a whole 7c/10 is missed from below when the product rounds
\* down to the double under it
IntTimes07(c) ==
    LET N == (7 * c) \div 10
    IN  IF c % 10 # 0 \/ N = 0 THEN N
        ELSE IF 4 * N > 7 * Pow2Le(N, 1, 1) THEN N - 1 ELSE N

\* int(c * 1.1): the product never falls below a whole 11c/10
\* faulty variant: increase factor 1.2
IntTimes11Wrong(c) == (12 * c) \div 10
IntTimes11(c) == (11 * c) \div 10

\* fl(mean) > fl(c * 1.2) for the mean sum/n of n <= 5 whole throughputs
ExceedsTimes12(sum, n, c) ==
    IF 5 * sum # 6 * c * n THEN 5 * sum > 6 * c * n
    ELSE IF c % 5 = 0 THEN FALSE
    ELSE LET P   == Pow2Le(6 * c, 5, 1)
             rho == ((c % 5) * Pow2Mod5(52 - Log2(P))) % 5
         IN  \/ rho = 3
             \/ rho = 4 /\ 2 * c >= 3 * P

\* int(gamma * c + (1 - gamma) * t) with gamma = 0.8, for c, t >= 1
\* faulty variant: round() in place of int()
SmoothRounded(c, t) == (2 * (4 * c + t) + 5) \div 10
Smooth(c, t) ==
    LET N == (4 * c + t) \div 5
    IN  IF (4 * c + t) % 5 # 0 THEN N
        ELSE
        LET \* fl(gamma * c): 4 * 2^k1 and the rounding error e1 in fifths of an ulp
            P1   == Pow2Le(16 * c, 5, 1)
            rho1 == ((c % 5) * Pow2Mod5(56 - Log2(P1))) % 5
            e1   == 5 * RoundEven(rho1 * P1 + 4 * c, 5 * P1, rho1) - rho1
            \* fl((1 - gamma) * t): 16 * 2^k2 and the rounding error e2
            P2a  == Pow2Le(16 * t, 5, 1)
            P2   == IF 5 * P2a = 16 * t THEN P2a \div 2 ELSE P2a
            rho2 == ((t % 5) * Pow2Mod5(56 - Log2(P2))) % 5
            e2   == 5 * RoundEven(rho2 * P2 - 16 * t, 5 * P2, rho2) - rho2
            \* error of the sum against N, and the ulp below N, both times 16
            E    == e1 * 4 * P1 + e2 * P2
            PNa  == Pow2Le(N, 1, 1)
            PN   == IF PNa = N THEN 8 * PNa ELSE 16 * PNa
        IN  IF E < 0 /\ -2 * E > 5 * PN THEN N - 1 ELSE N

---------------------------------------------------------------------------
(* RTMPAdaptiveBitrate *)

\* np.mean(packet_loss_rate of the last 10) > 0.05, on percent values
LossExceeds(recent) ==
    SumSeq([i \in 1 .. Len(recent) |-> recent[i].packet_loss_rate])
        > LossThresholdPercent * Len(recent)

\* np.var(rtt_ms of the last 10) > 100: n * sum(x^2) - sum(x)^2 > 100 * n^2
RttVarianceExceeds(recent) ==
    LET n  == Len(recent)
        s1 == SumSeq([i \in 1 .. n |-> recent[i].rtt_ms])
        s2 == SumSeq([i \in 1 .. n |-> recent[i].rtt_ms * recent[i].rtt_ms])
    IN  n * s2 - s1 * s1 > RttVarianceThreshold * n * n

\* len(history) >= 20 and mean(history[-10:]) < mean(history[-20:-10]) * 0.8
\* (the fed throughputs never make the two sides equal)
ThroughputDropped(history) ==
    /\ Len(history) >= 2 * DetectionSamples
    /\ LET recent     == SumSeq(LastN(history, DetectionSamples))
           historical == SumSeq(SubSeq(history, Len(history) - 2 * DetectionSamples + 1,
                                       Len(history) - DetectionSamples))
       IN  5 * recent < 4 * historical

\* _detect_congestion on the appended windows: <<congestion_detected, network_state>>
\* faulty variant: the RTT jitter test placed before the loss test
DetectCongestionJitterFirst(window, history, detected, netstate) ==
    IF Len(window) < DetectionSamples THEN <<detected, netstate>>
    ELSE LET recent_stats == LastN(window, DetectionSamples)
         IN  IF RttVarianceExceeds(recent_stats) THEN <<TRUE, "unstable">>
             ELSE IF LossExceeds(recent_stats) THEN <<TRUE, "congested">>
             ELSE IF ThroughputDropped(history) THEN <<TRUE, "degraded">>
             ELSE <<FALSE, "stable">>
\* faulty variant: detection started after 5 samples
DetectCongestionShortWarmUp(window, history, detected, netstate) ==
    IF Len(window) < SmoothingSamples THEN <<detected, netstate>>
    ELSE LET recent_stats == LastN(window, DetectionSamples)
         IN  IF LossExceeds(recent_stats) THEN <<TRUE, "congested">>
             ELSE IF RttVarianceExceeds(recent_stats) THEN <<TRUE, "unstable">>
             ELSE IF ThroughputDropped(history) THEN <<TRUE, "degraded">>
             ELSE <<FALSE, "stable">>
DetectCongestion(window, history, detected, netstate) ==
    IF Len(window) < DetectionSamples THEN <<detected, netstate>>
    ELSE LET recent_stats == LastN(window, DetectionSamples)
         IN  IF LossExceeds(recent_stats) THEN <<TRUE, "congested">>
             ELSE IF RttVarianceExceeds(recent_stats) THEN <<TRUE, "unstable">>
             ELSE IF ThroughputDropped(history) THEN <<TRUE, "degraded">>
             ELSE <<FALSE, "stable">>

\* int(current_bitrate * reduction_factor)
\* faulty variant: the default factor 0.7 used for every state
ReducedByDefault(current, netstate) == IntTimes07(current)
Reduced(current, netstate) ==
    IF netstate = "congested" THEN IntTimesHalf(current)
    ELSE IF netstate = "unstable" THEN IntTimes08(current)
    ELSE IntTimes07(current)

\* the target _adjust_bitrate chooses
NewTarget(current, target, history, detected, netstate) ==
    LET recent == LastN(history, SmoothingSamples)
    IN  IF detected THEN Max(min_bitrate, Reduced(current, netstate))
        ELSE IF ExceedsTimes12(SumSeq(recent), Len(recent), current)
             THEN Min(max_bitrate, IntTimes11(current))
             ELSE target

\* _adjust_bitrate: <<current_bitrate, target_bitrate>>
\* faulty variant: the smoothing runs toward the target of the previous update
AdjustBitrateStaleTarget(current, target, history, detected, netstate) ==
    IF history = <<>> THEN <<current, target>>
    ELSE LET t == NewTarget(current, target, history, detected, netstate)
         IN  <<Smooth(current, target), t>>
AdjustBitrate(current, target, history, detected, netstate) ==
    IF history = <<>> THEN <<current, target>>
    ELSE LET t == NewTarget(current, target, history, detected, netstate)
         IN  <<Smooth(current, t), t>>

\* the body of update_network_stats, run under self.lock
UpdateBody(stats) ==
    LET window  == DequeAppend(stats_window, stats, StatsWindowMaxlen)
        history == DequeAppend(throughput_history, stats.throughput_bps,
                               ThroughputHistoryMaxlen)
        det     == DetectCongestion(window, history, congestion_detected, network_state)
        adj     == AdjustBitrate(current_bitrate, target_bitrate, history, det[1], det[2])
    IN  /\ stats_window' = window
        /\ throughput_history' = history
        /\ congestion_detected' = det[1]
        /\ network_state' = det[2]
        /\ current_bitrate' = adj[1]
        /\ target_bitrate' = adj[2]

\* a bitrate controller, as a record, after one more sample
ReplayOne(before, stats) ==
    LET window  == DequeAppend(before.window, stats, StatsWindowMaxlen)
        history == DequeAppend(before.history, stats.throughput_bps,
                               ThroughputHistoryMaxlen)
        det     == DetectCongestion(window, history, before.detected, before.netstate)
        adj     == AdjustBitrate(before.current, before.target, history,
                                 det[1], det[2])
    IN  [current |-> adj[1], target |-> adj[2], window |-> window,
         history |-> history, detected |-> det[1], netstate |-> det[2]]

\* a fresh bitrate controller, as a record
FreshController(initial_bitrate) ==
    [current |-> initial_bitrate, target |-> initial_bitrate, window |-> <<>>,
     history |-> <<>>, detected |-> FALSE, netstate |-> "stable"]

\* the <<current_bitrate, network_state>> pairs that the updates of a sample
\* sequence leave one after the other, from the i-th sample on
RECURSIVE PairsLeft(_, _, _)
PairsLeft(abr, samples, i) ==
    IF i > Len(samples) THEN {}
    ELSE LET after == ReplayOne(abr, samples[i])
         IN  {<<after.current, after.netstate>>} \cup PairsLeft(after, samples, i + 1)

\* the caller feeds one more sample of a sequence with few changes of kind
Feedable(stats, limit) ==
    /\ Len(stats_window) < limit
    /\ Switches(Append(stats_window, stats)) <= MaxSwitches

update_network_stats(stats) ==
    /\ Feedable(stats, MaxTicks)
    /\ UpdateBody(stats)
    /\ last_call' = [op |-> "update_network_stats", arg |-> stats, ret |-> "None"]
    /\ UNCHANGED <<buf_vars, cc_vars, optimization_logs, transport_events>>
    /\ UNCHANGED thread_vars

get_optimal_bitrate ==
    /\ last_call' = [op |-> "get_optimal_bitrate", arg |-> "None", ret |-> current_bitrate]
    /\ UNCHANGED <<abr_vars, buf_vars, cc_vars, optimization_logs, transport_events>>
    /\ UNCHANGED thread_vars

get_network_state ==
    /\ last_call' = [op |-> "get_network_state", arg |-> "None", ret |-> network_state]
    /\ UNCHANGED <<abr_vars, buf_vars, cc_vars, optimization_logs, transport_events>>
    /\ UNCHANGED thread_vars

\* threads.  One thread feeds update_network_stats, the other polls the getters.
Writers == {"writer"}
Readers == {"reader"}
Threads == Writers \cup Readers
NoCall == [op |-> "None", arg |-> "None", ret |-> "None"]

\* self.lock = threading.Lock(), and no method entered
ThreadsInit ==
    /\ lock = "none"
    /\ pc = [t \in Threads |-> "idle"]
    /\ frame = [t \in Threads |-> NoCall]

\* the other components as their constructors leave them
\* faulty variant: watermarks at 10% and 90%
BufferInitWrongThresholds(size) ==
    /\ max_buffer_size = size
    /\ current_buffer_size = 0
    /\ buffer_threshold_low = size \div 10
    /\ buffer_threshold_high = (9 * size) \div 10
    /\ buffer_state = "normal"
    /\ drop_count = 0
    /\ buffer_utilization = <<>>
    /\ dropped_packets = 0
BufferInit(size) ==
    /\ max_buffer_size = size
    /\ current_buffer_size = 0
    /\ buffer_threshold_low = size \div 5
    /\ buffer_threshold_high = (4 * size) \div 5
    /\ buffer_state = "normal"
    /\ drop_count = 0
    /\ buffer_utilization = <<>>
    /\ dropped_packets = 0

CongestionInit ==
    /\ congestion_window = [num |-> InitialCongestionWindow, den |-> 1]
    /\ slow_start_threshold = InitialSlowStartThreshold
    /\ state = "slow_start"
    /\ retransmissions = 0

BitrateInit(initial_bitrate) ==
    /\ current_bitrate = initial_bitrate
    /\ target_bitrate = initial_bitrate
    /\ stats_window = <<>>
    /\ throughput_history = <<>>
    /\ network_state = "stable"
    /\ congestion_detected = FALSE

\* A stand-alone RTMPAdaptiveBitrate(initial_bitrate) and its callers
InitBitrate ==
    /\ \E b \in InitialBitrates :
          /\ BitrateInit(b)
          /\ last_call = [op |-> "RTMPAdaptiveBitrate", arg |-> b, ret |-> "None"]
    /\ BufferInit(DefaultMaxBufferSize)
    /\ CongestionInit
    /\ optimization_logs = <<>>
    /\ transport_events = 0
    /\ ThreadsInit

NextBitrate ==
    \/ \E stats \in Samples : update_network_stats(stats)
    \/ get_optimal_bitrate
    \/ get_network_state

SpecBitrate == InitBitrate /\ [][NextBitrate]_vars

\* a long run of update_network_stats calls: the samples change kind at most
\* once, before the window is full, and the run goes on after both deques are full
LongSamples == {GoodSample, SlowSample}

LongFeed(stats) ==
    IF stats_window = <<>> \/ Len(stats_window) = StatsWindowMaxlen
          \/ Switches(stats_window) # 0
    THEN stats_window # <<>> => stats = stats_window[Len(stats_window)]
    ELSE TRUE

update_network_stats_long(stats) ==
    /\ LongFeed(stats)
    /\ UpdateBody(stats)
    /\ last_call' = [op |-> "update_network_stats", arg |-> stats, ret |-> "None"]
    /\ UNCHANGED <<buf_vars, cc_vars, optimization_logs, transport_events>>
    /\ UNCHANGED thread_vars

InitWindows ==
    /\ BitrateInit(DefaultInitialBitrate)
    /\ last_call = [op |-> "RTMPAdaptiveBitrate", arg |-> DefaultInitialBitrate,
                    ret |-> "None"]
    /\ BufferInit(DefaultMaxBufferSize)
    /\ CongestionInit
    /\ optimization_logs = <<>>
    /\ transport_events = 0
    /\ ThreadsInit

NextWindows == \E stats \in LongSamples : update_network_stats_long(stats)

SpecWindows == InitWindows /\ [][NextWindows]_vars

---------------------------------------------------------------------------
(* RTMPBufferManager *)

\* the state update_buffer_level derives from a level
BufferStateOf(level, low, high) ==
    IF level <= low THEN "low"
    ELSE IF level >= high THEN "high"
    ELSE "normal"

\* the body of update_buffer_level
\* faulty variant: once high, the state stays high until the level is low again
UpdateLevelBodyHysteresis(level) ==
    /\ current_buffer_size' = level
    /\ buffer_utilization' = Append(buffer_utilization, level)
    /\ buffer_state' = IF buffer_state = "high" /\ level > buffer_threshold_low
                       THEN "high"
                       ELSE BufferStateOf(level, buffer_threshold_low,
                                          buffer_threshold_high)
    /\ UNCHANGED <<max_buffer_size, buffer_threshold_low, buffer_threshold_high,
                   drop_count, dropped_packets>>
UpdateLevelBody(level) ==
    /\ current_buffer_size' = level
    /\ buffer_utilization' = Append(buffer_utilization, level)
    /\ buffer_state' = BufferStateOf(level, buffer_threshold_low, buffer_threshold_high)
    /\ UNCHANGED <<max_buffer_size, buffer_threshold_low, buffer_threshold_high,
                   drop_count, dropped_packets>>

update_buffer_level(level) ==
    /\ Len(buffer_utilization) < MaxLevelUpdates
    /\ UpdateLevelBody(level)
    /\ last_call' = [op |-> "update_buffer_level", arg |-> level, ret |-> "None"]
    /\ UNCHANGED <<abr_vars, cc_vars, optimization_logs, transport_events>>
    /\ UNCHANGED thread_vars

\* the condition on which should_drop_packets signals a drop
\* faulty variant: drop only above capacity
AtCapacityStrict(size, max) == size > max
AtCapacity(size, max) == size >= max

should_drop_packets ==
    /\ drop_count < MaxDrops
    /\ IF AtCapacity(current_buffer_size, max_buffer_size)
       THEN /\ drop_count' = drop_count + 1
            /\ dropped_packets' = dropped_packets + 1
            /\ last_call' = [op |-> "should_drop_packets", arg |-> "None", ret |-> TRUE]
       ELSE /\ UNCHANGED <<drop_count, dropped_packets>>
            /\ last_call' = [op |-> "should_drop_packets", arg |-> "None", ret |-> FALSE]
    /\ UNCHANGED <<max_buffer_size, buffer_threshold_low, buffer_threshold_high,
                   current_buffer_size, buffer_state, buffer_utilization>>
    /\ UNCHANGED <<abr_vars, cc_vars, optimization_logs, transport_events>>
    /\ UNCHANGED thread_vars

\* get_buffer_stats; utilization is the mean of the last 10 levels, as sum and count
BufferStats ==
    [current_size |-> current_buffer_size,
     max_size     |-> max_buffer_size,
     state        |-> buffer_state,
     utilization  |-> IF buffer_utilization = <<>> THEN [sum |-> 0, n |-> 1]
                      ELSE [sum |-> SumSeq(LastN(buffer_utilization, UtilizationSamples)),
                            n   |-> Len(LastN(buffer_utilization, UtilizationSamples))],
     drop_count   |-> drop_count]

get_buffer_stats ==
    /\ last_call' = [op |-> "get_buffer_stats", arg |-> "None", ret |-> BufferStats]
    /\ UNCHANGED <<abr_vars, buf_vars, cc_vars, optimization_logs, transport_events>>
    /\ UNCHANGED thread_vars

\* A stand-alone RTMPBufferManager(max_buffer_size) and its callers
InitBuffer ==
    /\ \E size \in MaxBufferSizes :
          /\ BufferInit(size)
          /\ last_call = [op |-> "RTMPBufferManager", arg |-> size, ret |-> "None"]
    /\ BitrateInit(DefaultInitialBitrate)
    /\ CongestionInit
    /\ optimization_logs = <<>>
    /\ transport_events = 0
    /\ ThreadsInit

NextBuffer ==
    \/ \E level \in Levels : update_buffer_level(level)
    \/ should_drop_packets
    \/ get_buffer_stats

SpecBuffer == InitBuffer /\ [][NextBuffer]_vars

---------------------------------------------------------------------------
(* RTMPCongestionController *)

\* int(congestion_window)
WindowFloor(w) == w.num \div w.den

\* max(congestion_window // 2, 2)
\* faulty variant: the half rounded up
HalvedThresholdRoundedUp(w) == Max((w.num + 2 * w.den - 1) \div (2 * w.den), 2)
\* faulty variant: the floor of 2 forgotten
HalvedThresholdNoFloor(w) == w.num \div (2 * w.den)
HalvedThreshold(w) == Max(w.num \div (2 * w.den), 2)

\* the body of on_packet_loss
\* faulty variant: fast retransmit without the 3 segments of inflation
PacketLossBodyNoInflation(is_timeout) ==
    IF is_timeout
    THEN /\ slow_start_threshold' = HalvedThreshold(congestion_window)
         /\ congestion_window' = [num |-> 1, den |-> 1]
         /\ state' = "slow_start"
         /\ retransmissions' = retransmissions + 1
    ELSE /\ slow_start_threshold' = HalvedThreshold(congestion_window)
         /\ congestion_window' = [num |-> HalvedThreshold(congestion_window), den |-> 1]
         /\ state' = "fast_recovery"
         /\ UNCHANGED retransmissions
\* faulty variant: a timeout halves the window instead of resetting it
PacketLossBodyNoReset(is_timeout) ==
    /\ slow_start_threshold' = HalvedThreshold(congestion_window)
    /\ congestion_window' = [num |-> HalvedThreshold(congestion_window), den |-> 1]
    /\ state' = IF is_timeout THEN "slow_start" ELSE "fast_recovery"
    /\ retransmissions' = IF is_timeout THEN retransmissions + 1 ELSE retransmissions
\* faulty variant: a timeout returns to slow start without shrinking the window
PacketLossBodyKeepsWindow(is_timeout) ==
    IF is_timeout
    THEN /\ slow_start_threshold' = HalvedThreshold(congestion_window)
         /\ UNCHANGED congestion_window
         /\ state' = "slow_start"
         /\ retransmissions' = retransmissions + 1
    ELSE /\ slow_start_threshold' = HalvedThreshold(congestion_window)
         /\ congestion_window' = [num |-> HalvedThreshold(congestion_window) + 3,
                                  den |-> 1]
         /\ state' = "fast_recovery"
         /\ UNCHANGED retransmissions
PacketLossBody(is_timeout) ==
    IF is_timeout
    THEN /\ slow_start_threshold' = HalvedThreshold(congestion_window)
         /\ congestion_window' = [num |-> 1, den |-> 1]
         /\ state' = "slow_start"
         /\ retransmissions' = retransmissions + 1
    ELSE /\ slow_start_threshold' = HalvedThreshold(congestion_window)
         /\ congestion_window' = [num |-> HalvedThreshold(congestion_window) + 3,
                                  den |-> 1]
         /\ state' = "fast_recovery"
         /\ UNCHANGED retransmissions

\* faulty variant: slow start does not open the window
WindowPlusNothing(w) == w

\* congestion_window += 1
WindowPlusOne(w) == [num |-> w.num + w.den, den |-> w.den]

\* congestion_window += 1 / congestion_window
WindowPlusInverse(w) == [num |-> w.num * w.num + w.den * w.den, den |-> w.num * w.den]

\* congestion_window >= slow_start_threshold
\* faulty variant: strict comparison
ReachedThresholdStrict(w, threshold) == w.num > threshold * w.den
ReachedThreshold(w, threshold) == w.num >= threshold * w.den

\* the body of on_ack_received
\* faulty variant: recovery lasts until the window is back at the threshold
AckBodyLingeringRecovery(bytes_acked) ==
    /\ CASE state = "slow_start" ->
              /\ congestion_window' = WindowPlusOne(congestion_window)
              /\ state' = IF ReachedThreshold(WindowPlusOne(congestion_window),
                                              slow_start_threshold)
                          THEN "congestion_avoidance" ELSE state
         [] state = "congestion_avoidance" ->
              /\ congestion_window' = WindowPlusInverse(congestion_window)
              /\ UNCHANGED state
         [] state = "fast_recovery" ->
              /\ congestion_window' = [num |-> congestion_window.num - congestion_window.den,
                                       den |-> congestion_window.den]
              /\ state' = IF congestion_window.num - congestion_window.den
                                <= slow_start_threshold * congestion_window.den
                          THEN "congestion_avoidance" ELSE state
    /\ UNCHANGED <<slow_start_threshold, retransmissions>>
\* faulty variant: avoidance stores the whole part of the grown window
AckBodyWholeWindow(bytes_acked) ==
    /\ CASE state = "slow_start" ->
              /\ congestion_window' = WindowPlusOne(congestion_window)
              /\ state' = IF ReachedThreshold(WindowPlusOne(congestion_window),
                                              slow_start_threshold)
                          THEN "congestion_avoidance" ELSE state
         [] state = "congestion_avoidance" ->
              /\ congestion_window' =
                     [num |-> WindowFloor(WindowPlusInverse(congestion_window)), den |-> 1]
              /\ UNCHANGED state
         [] state = "fast_recovery" ->
              /\ congestion_window' = [num |-> slow_start_threshold, den |-> 1]
              /\ state' = "congestion_avoidance"
    /\ UNCHANGED <<slow_start_threshold, retransmissions>>
AckBody(bytes_acked) ==
    /\ CASE state = "slow_start" ->
              /\ congestion_window' = WindowPlusOne(congestion_window)
              /\ state' = IF ReachedThreshold(WindowPlusOne(congestion_window),
                                              slow_start_threshold)
                          THEN "congestion_avoidance" ELSE state
         [] state = "congestion_avoidance" ->
              /\ congestion_window' = WindowPlusInverse(congestion_window)
              /\ UNCHANGED state
         [] state = "fast_recovery" ->
              /\ congestion_window' = [num |-> slow_start_threshold, den |-> 1]
              /\ state' = "congestion_avoidance"
    /\ UNCHANGED <<slow_start_threshold, retransmissions>>

\* the events explored: timeouts are counted, slow start is followed a few steps
\* above the initial window, avoidance while the fraction stays small
LossExplored(is_timeout) == is_timeout => retransmissions < MaxRetransmissions

AckExplored ==
    CASE state = "slow_start" ->
           WindowFloor(congestion_window) < InitialCongestionWindow + MaxWindowGrowth
      [] state = "congestion_avoidance" -> congestion_window.num <= MaxNumerator
      [] OTHER -> TRUE

on_packet_loss(is_timeout) ==
    /\ LossExplored(is_timeout)
    /\ PacketLossBody(is_timeout)
    /\ last_call' = [op |-> "on_packet_loss", arg |-> is_timeout, ret |-> "None"]
    /\ UNCHANGED <<abr_vars, buf_vars, optimization_logs, transport_events>>
    /\ UNCHANGED thread_vars

on_ack_received(bytes_acked) ==
    /\ AckExplored
    /\ AckBody(bytes_acked)
    /\ last_call' = [op |-> "on_ack_received", arg |-> bytes_acked, ret |-> "None"]
    /\ UNCHANGED <<abr_vars, buf_vars, optimization_logs, transport_events>>
    /\ UNCHANGED thread_vars

get_congestion_window ==
    /\ last_call' = [op |-> "get_congestion_window", arg |-> "None",
                     ret |-> WindowFloor(congestion_window)]
    /\ UNCHANGED <<abr_vars, buf_vars, cc_vars, optimization_logs, transport_events>>
    /\ UNCHANGED thread_vars

get_state ==
    /\ last_call' = [op |-> "get_state", arg |-> "None", ret |-> state]
    /\ UNCHANGED <<abr_vars, buf_vars, cc_vars, optimization_logs, transport_events>>
    /\ UNCHANGED thread_vars

\* bytes_acked values (the handler does not read them)
AckSizes == {1448}

\* A stand-alone RTMPCongestionController() and its callers
InitCongestion ==
    /\ CongestionInit
    /\ BitrateInit(DefaultInitialBitrate)
    /\ BufferInit(DefaultMaxBufferSize)
    /\ optimization_logs = <<>>
    /\ transport_events = 0
    /\ last_call = [op |-> "RTMPCongestionController", arg |-> "None", ret |-> "None"]
    /\ ThreadsInit

NextCongestion ==
    \/ \E is_timeout \in BOOLEAN : on_packet_loss(is_timeout)
    \/ \E bytes_acked \in AckSizes : on_ack_received(bytes_acked)
    \/ get_congestion_window
    \/ get_state

SpecCongestion == InitCongestion /\ [][NextCongestion]_vars

\* A connection that loses a few packets and whose acks keep arriving: slow
\* start is followed all the way to the threshold.  A loss is delivered at the
\* initial window or at a small window; avoidance is followed while the fraction
\* stays small.
LossDelivered ==
    /\ transport_events < MaxLossEvents
    /\ \/ congestion_window = [num |-> InitialCongestionWindow, den |-> 1]
       \/ WindowFloor(congestion_window) < MaxLossWindow

AckFollowed == state = "congestion_avoidance" => congestion_window.num <= MaxNumerator

loss_event(is_timeout) ==
    /\ LossDelivered
    /\ PacketLossBody(is_timeout)
    /\ transport_events' = transport_events + 1
    /\ last_call' = [op |-> "on_packet_loss", arg |-> is_timeout, ret |-> "None"]
    /\ UNCHANGED <<abr_vars, buf_vars, optimization_logs>>
    /\ UNCHANGED thread_vars

ack_event(bytes_acked) ==
    /\ AckFollowed
    /\ AckBody(bytes_acked)
    /\ last_call' = [op |-> "on_ack_received", arg |-> bytes_acked, ret |-> "None"]
    /\ UNCHANGED <<abr_vars, buf_vars, optimization_logs, transport_events>>
    /\ UNCHANGED thread_vars

NextAcked ==
    \/ \E is_timeout \in BOOLEAN : loss_event(is_timeout)
    \/ \E bytes_acked \in AckSizes : ack_event(bytes_acked)

\* acks keep arriving: an ack that can be delivered is delivered eventually
SpecAcked ==
    /\ InitCongestion
    /\ [][NextAcked]_vars
    /\ WF_vars(\E bytes_acked \in AckSizes : ack_event(bytes_acked))

---------------------------------------------------------------------------
(* RTMPOptimizer *)

\* the record optimize assembles after both updates
\* faulty variant: the window reported without int()
OptimizationLogUnfloored ==
    [optimal_bitrate   |-> current_bitrate,
     congestion_window |-> congestion_window.num,
     buffer_stats      |-> BufferStats,
     network_state     |-> network_state,
     congestion_state  |-> state]
OptimizationLog ==
    [optimal_bitrate   |-> current_bitrate,
     congestion_window |-> WindowFloor(congestion_window),
     buffer_stats      |-> BufferStats,
     network_state     |-> network_state,
     congestion_state  |-> state]

\* one optimizer is fed samples of one kind
SteadyFeed(stats) ==
    /\ Len(stats_window) < MaxOptTicks
    /\ stats_window # <<>> => stats = stats_window[Len(stats_window)]

\* faulty variant: the bitrate capped by the congestion window before the update
optimizeWindowCapped(stats) ==
    /\ SteadyFeed(stats)
    /\ LET window  == DequeAppend(stats_window, stats, StatsWindowMaxlen)
           history == DequeAppend(throughput_history, stats.throughput_bps,
                                  ThroughputHistoryMaxlen)
           det     == DetectCongestion(window, history, congestion_detected,
                                       network_state)
           capped  == Min(current_bitrate, 3000 * WindowFloor(congestion_window))
           adj     == AdjustBitrate(capped, target_bitrate, history, det[1], det[2])
       IN  /\ stats_window' = window
           /\ throughput_history' = history
           /\ congestion_detected' = det[1]
           /\ network_state' = det[2]
           /\ current_bitrate' = adj[1]
           /\ target_bitrate' = adj[2]
    /\ UpdateLevelBody(stats.buffer_level)
    /\ UNCHANGED cc_vars
    /\ optimization_logs' = Append(optimization_logs, OptimizationLog')
    /\ last_call' = [op |-> "optimize", arg |-> stats, ret |-> OptimizationLog']
    /\ UNCHANGED transport_events
    /\ UNCHANGED thread_vars
optimize(stats) ==
    /\ SteadyFeed(stats)
    /\ UpdateBody(stats)
    /\ UpdateLevelBody(stats.buffer_level)
    /\ UNCHANGED cc_vars
    /\ optimization_logs' = Append(optimization_logs, OptimizationLog')
    /\ last_call' = [op |-> "optimize", arg |-> stats, ret |-> OptimizationLog']
    /\ UNCHANGED transport_events
    /\ UNCHANGED thread_vars

\* get_optimization_report (runtime_seconds is left out, total_bytes_sent stays 0)
\* faulty variant: the whole log handed out instead of its last 10 entries
OptimizationReportWholeLog ==
    [total_bytes_sent        |-> 0,
     final_bitrate           |-> current_bitrate,
     network_state           |-> network_state,
     buffer_stats            |-> BufferStats,
     optimization_logs_count |-> Len(optimization_logs),
     recent_logs             |-> optimization_logs]
OptimizationReport ==
    [total_bytes_sent        |-> 0,
     final_bitrate           |-> current_bitrate,
     network_state           |-> network_state,
     buffer_stats            |-> BufferStats,
     optimization_logs_count |-> Len(optimization_logs),
     recent_logs             |-> LastN(optimization_logs, RecentLogs)]

get_optimization_report ==
    /\ last_call' = [op |-> "get_optimization_report", arg |-> "None",
                     ret |-> OptimizationReport]
    /\ UNCHANGED <<abr_vars, buf_vars, cc_vars, optimization_logs, transport_events>>
    /\ UNCHANGED thread_vars

\* the transport path delivers its events in one burst, anywhere between two ticks
TransportBurst ==
    /\ transport_events < MaxTransportEvents
    /\ transport_events = 0 \/ last_call.op \in {"on_packet_loss", "on_ack_received"}

\* the transport path delivers a loss or an ack to optimizer.congestion_controller
transport_loss(is_timeout) ==
    /\ TransportBurst
    /\ LossExplored(is_timeout)
    /\ transport_events' = transport_events + 1
    /\ PacketLossBody(is_timeout)
    /\ last_call' = [op |-> "on_packet_loss", arg |-> is_timeout, ret |-> "None"]
    /\ UNCHANGED <<abr_vars, buf_vars, optimization_logs>>
    /\ UNCHANGED thread_vars

transport_ack(bytes_acked) ==
    /\ TransportBurst
    /\ AckExplored
    /\ transport_events' = transport_events + 1
    /\ AckBody(bytes_acked)
    /\ last_call' = [op |-> "on_ack_received", arg |-> bytes_acked, ret |-> "None"]
    /\ UNCHANGED <<abr_vars, buf_vars, optimization_logs>>
    /\ UNCHANGED thread_vars

\* RTMPOptimizer(initial_bitrate), driven from one thread
Init ==
    /\ \E b \in InitialBitrates :
          /\ BitrateInit(b)
          /\ last_call = [op |-> "RTMPOptimizer", arg |-> b, ret |-> "None"]
    /\ BufferInit(DefaultMaxBufferSize)
    /\ CongestionInit
    /\ optimization_logs = <<>>
    /\ transport_events = 0
    /\ ThreadsInit

Next ==
    \/ \E stats \in Samples : optimize(stats)
    \/ \E is_timeout \in BOOLEAN : transport_loss(is_timeout)
    \/ \E bytes_acked \in AckSizes : transport_ack(bytes_acked)
    \/ get_optimization_report

Spec == Init /\ [][Next]_vars

---------------------------------------------------------------------------
(* RTMPAdaptiveBitrate shared by threads: update_network_stats and the     *)
(* getters taken one statement at a time                                   *)

\* threading.Lock is free: `with self.lock` may enter
\* faulty variant: the block entered without looking at the lock
LockFreeUnchecked == TRUE
LockFree == lock = "none"

\* a thread moves from one statement to the next
Goto(t, label) == pc' = [pc EXCEPT ![t] = label]

\* the writer is fed samples of one kind
ThreadFeed(stats) ==
    /\ Len(stats_window) < MaxThreadTicks
    /\ stats_window # <<>> => stats = stats_window[Len(stats_window)]

\* update_network_stats(stats) is called
update_call(t, stats) ==
    /\ pc[t] = "idle"
    /\ ThreadFeed(stats)
    /\ Goto(t, "update_lock")
    /\ frame' = [frame EXCEPT ![t] = [op |-> "update_network_stats", arg |-> stats,
                                      ret |-> "None"]]
    /\ UNCHANGED <<abr_vars, buf_vars, cc_vars, optimization_logs, last_call,
                   transport_events, lock>>

\* with self.lock:
update_lock(t) ==
    /\ pc[t] = "update_lock"
    /\ LockFree
    /\ lock' = t
    /\ Goto(t, "update_append_stats")
    /\ UNCHANGED <<abr_vars, buf_vars, cc_vars, optimization_logs, last_call,
                   transport_events, frame>>

\* self.stats_window.append(stats)
update_append_stats(t) ==
    /\ pc[t] = "update_append_stats"
    /\ stats_window' = DequeAppend(stats_window, frame[t].arg, StatsWindowMaxlen)
    /\ Goto(t, "update_append_throughput")
    /\ UNCHANGED <<current_bitrate, target_bitrate, throughput_history, network_state,
                   congestion_detected>>
    /\ UNCHANGED <<buf_vars, cc_vars, optimization_logs, last_call, transport_events,
                   lock, frame>>

\* self.throughput_history.append(stats.throughput_bps)
update_append_throughput(t) ==
    /\ pc[t] = "update_append_throughput"
    /\ throughput_history' = DequeAppend(throughput_history, frame[t].arg.throughput_bps,
                                         ThroughputHistoryMaxlen)
    /\ Goto(t, "update_detect")
    /\ UNCHANGED <<current_bitrate, target_bitrate, stats_window, network_state,
                   congestion_detected>>
    /\ UNCHANGED <<buf_vars, cc_vars, optimization_logs, last_call, transport_events,
                   lock, frame>>

\* self._detect_congestion()
update_detect(t) ==
    /\ pc[t] = "update_detect"
    /\ LET det == DetectCongestion(stats_window, throughput_history,
                                   congestion_detected, network_state)
       IN  /\ congestion_detected' = det[1]
           /\ network_state' = det[2]
    /\ Goto(t, "update_target")
    /\ UNCHANGED <<current_bitrate, target_bitrate, stats_window, throughput_history>>
    /\ UNCHANGED <<buf_vars, cc_vars, optimization_logs, last_call, transport_events,
                   lock, frame>>

\* self._adjust_bitrate(), up to the assignment of self.target_bitrate
update_target(t) ==
    /\ pc[t] = "update_target"
    /\ IF throughput_history = <<>>
       THEN /\ Goto(t, "update_unlock")
            /\ UNCHANGED target_bitrate
       ELSE /\ Goto(t, "update_smooth")
            /\ target_bitrate' = NewTarget(current_bitrate, target_bitrate,
                                           throughput_history, congestion_detected,
                                           network_state)
    /\ UNCHANGED <<current_bitrate, stats_window, throughput_history, network_state,
                   congestion_detected>>
    /\ UNCHANGED <<buf_vars, cc_vars, optimization_logs, last_call, transport_events,
                   lock, frame>>

\* self._adjust_bitrate(), the closing assignment of self.current_bitrate
update_smooth(t) ==
    /\ pc[t] = "update_smooth"
    /\ current_bitrate' = Smooth(current_bitrate, target_bitrate)
    /\ Goto(t, "update_unlock")
    /\ UNCHANGED <<target_bitrate, stats_window, throughput_history, network_state,
                   congestion_detected>>
    /\ UNCHANGED <<buf_vars, cc_vars, optimization_logs, last_call, transport_events,
                   lock, frame>>

\* the with block is left and update_network_stats returns
update_unlock(t) ==
    /\ pc[t] = "update_unlock"
    /\ lock' = "none"
    /\ Goto(t, "idle")
    /\ last_call' = frame[t]
    /\ frame' = [frame EXCEPT ![t] = NoCall]
    /\ UNCHANGED <<abr_vars, buf_vars, cc_vars, optimization_logs, transport_events>>

\* the getters of RTMPAdaptiveBitrate
Getters == {"get_optimal_bitrate", "get_network_state"}

\* get_optimal_bitrate() or get_network_state() is called
get_call(t, op) ==
    /\ pc[t] = "idle"
    /\ Goto(t, "get_lock")
    /\ frame' = [frame EXCEPT ![t] = [op |-> op, arg |-> "None", ret |-> "None"]]
    /\ UNCHANGED <<abr_vars, buf_vars, cc_vars, optimization_logs, last_call,
                   transport_events, lock>>

\* with self.lock:
get_lock(t) ==
    /\ pc[t] = "get_lock"
    /\ LockFree
    /\ lock' = t
    /\ Goto(t, "get_read")
    /\ UNCHANGED <<abr_vars, buf_vars, cc_vars, optimization_logs, last_call,
                   transport_events, frame>>

\* the value of the return expression
get_read(t) ==
    /\ pc[t] = "get_read"
    /\ frame' = [frame EXCEPT ![t].ret = IF frame[t].op = "get_optimal_bitrate"
                                         THEN current_bitrate ELSE network_state]
    /\ Goto(t, "get_unlock")
    /\ UNCHANGED <<abr_vars, buf_vars, cc_vars, optimization_logs, last_call,
                   transport_events, lock>>

\* the with block is left and the getter returns
get_unlock(t) ==
    /\ pc[t] = "get_unlock"
    /\ lock' = "none"
    /\ Goto(t, "idle")
    /\ last_call' = frame[t]
    /\ frame' = [frame EXCEPT ![t] = NoCall]
    /\ UNCHANGED <<abr_vars, buf_vars, cc_vars, optimization_logs, transport_events>>

\* RTMPAdaptiveBitrate(initial_bitrate) shared by a writer and a reader thread
InitLocked ==
    /\ \E b \in InitialBitrates :
          /\ BitrateInit(b)
          /\ last_call = [op |-> "RTMPAdaptiveBitrate", arg |-> b, ret |-> "None"]
    /\ BufferInit(DefaultMaxBufferSize)
    /\ CongestionInit
    /\ optimization_logs = <<>>
    /\ transport_events = 0
    /\ ThreadsInit

NextLocked ==
    \/ \E t \in Writers :
          \/ \E stats \in Samples : update_call(t, stats)
          \/ update_lock(t)
          \/ update_append_stats(t)
          \/ update_append_throughput(t)
          \/ update_detect(t)
          \/ update_target(t)
          \/ update_smooth(t)
          \/ update_unlock(t)
    \/ \E t \in Readers :
          \/ \E op \in Getters : get_call(t, op)
          \/ get_lock(t)
          \/ get_read(t)
          \/ get_unlock(t)

SpecLocked == InitLocked /\ [][NextLocked]_vars

---------------------------------------------------------------------------
(* RTMPCongestionController shared by the two transport paths: one thread  *)
(* delivers a loss while another delivers an ack.  The methods take no     *)
(* lock; each is followed one attribute read or write at a time.           *)

TransportThreads == {"loss_path", "ack_path"}

\* the congestion state the claims compare
CongestionState ==
    [window |-> congestion_window, threshold |-> slow_start_threshold, state |-> state]

\* rounds of concurrent calls explored, the window small enough for one more
\* avoidance step
RoundExplored(is_timeout) ==
    /\ transport_events < MaxConcurrentRounds
    /\ LossExplored(is_timeout)
    /\ congestion_window.num <= MaxNumerator

\* on_packet_loss(is_timeout) and on_ack_received(bytes_acked) are called at the
\* same time, each on its own thread
concurrent_calls(is_timeout, bytes_acked) ==
    /\ \A t \in TransportThreads : pc[t] = "idle"
    /\ RoundExplored(is_timeout)
    /\ pc' = [t \in TransportThreads |->
                IF t = "loss_path" THEN "loss_read_window" ELSE "ack_test_slow_start"]
    /\ frame' = [t \in TransportThreads |->
                   IF t = "loss_path"
                   THEN [op |-> "on_packet_loss", arg |-> is_timeout, tmp |-> 0,
                         before |-> CongestionState]
                   ELSE [op |-> "on_ack_received", arg |-> bytes_acked, tmp |-> 0,
                         before |-> CongestionState]]
    /\ UNCHANGED <<abr_vars, buf_vars, cc_vars, optimization_logs, last_call,
                   transport_events, lock>>

\* a step of a transport thread that touches the controller's attributes only
TransportFrame == UNCHANGED <<abr_vars, buf_vars, optimization_logs, last_call,
                              transport_events, lock>>

\* max(self.congestion_window // 2, 2) is evaluated
loss_read_window(t) ==
    /\ pc[t] = "loss_read_window"
    /\ frame' = [frame EXCEPT ![t].tmp = HalvedThreshold(congestion_window)]
    /\ Goto(t, "loss_write_threshold")
    /\ UNCHANGED cc_vars
    /\ TransportFrame

\* self.slow_start_threshold = <the value evaluated>
loss_write_threshold(t) ==
    /\ pc[t] = "loss_write_threshold"
    /\ slow_start_threshold' = frame[t].tmp
    /\ Goto(t, IF frame[t].arg THEN "loss_reset_window" ELSE "loss_read_threshold")
    /\ UNCHANGED <<congestion_window, state, retransmissions, frame>>
    /\ TransportFrame

\* timeout: self.congestion_window = 1
loss_reset_window(t) ==
    /\ pc[t] = "loss_reset_window"
    /\ congestion_window' = [num |-> 1, den |-> 1]
    /\ Goto(t, "loss_write_slow_start")
    /\ UNCHANGED <<slow_start_threshold, state, retransmissions, frame>>
    /\ TransportFrame

\* timeout: self.state = "slow_start"; self.retransmissions += 1
loss_write_slow_start(t) ==
    /\ pc[t] = "loss_write_slow_start"
    /\ state' = "slow_start"
    /\ retransmissions' = retransmissions + 1
    /\ Goto(t, "done")
    /\ UNCHANGED <<congestion_window, slow_start_threshold, frame>>
    /\ TransportFrame

\* fast retransmit: self.slow_start_threshold + 3 is evaluated
loss_read_threshold(t) ==
    /\ pc[t] = "loss_read_threshold"
    /\ frame' = [frame EXCEPT ![t].tmp = slow_start_threshold + 3]
    /\ Goto(t, "loss_write_window")
    /\ UNCHANGED cc_vars
    /\ TransportFrame

\* fast retransmit: self.congestion_window = <the value evaluated>
loss_write_window(t) ==
    /\ pc[t] = "loss_write_window"
    /\ congestion_window' = [num |-> frame[t].tmp, den |-> 1]
    /\ Goto(t, "loss_write_fast_recovery")
    /\ UNCHANGED <<slow_start_threshold, state, retransmissions, frame>>
    /\ TransportFrame

\* fast retransmit: self.state = "fast_recovery"
loss_write_fast_recovery(t) ==
    /\ pc[t] = "loss_write_fast_recovery"
    /\ state' = "fast_recovery"
    /\ Goto(t, "done")
    /\ UNCHANGED <<congestion_window, slow_start_threshold, retransmissions, frame>>
    /\ TransportFrame

\* if self.state == "slow_start":
ack_test_slow_start(t) ==
    /\ pc[t] = "ack_test_slow_start"
    /\ Goto(t, IF state = "slow_start" THEN "ack_read_window" ELSE "ack_test_avoidance")
    /\ UNCHANGED <<cc_vars, frame>>
    /\ TransportFrame

\* slow start: self.congestion_window + 1 is evaluated
ack_read_window(t) ==
    /\ pc[t] = "ack_read_window"
    /\ frame' = [frame EXCEPT ![t].tmp = WindowPlusOne(congestion_window)]
    /\ Goto(t, "ack_write_window")
    /\ UNCHANGED cc_vars
    /\ TransportFrame

\* slow start: self.congestion_window = <the value evaluated>
ack_write_window(t) ==
    /\ pc[t] = "ack_write_window"
    /\ congestion_window' = frame[t].tmp
    /\ Goto(t, "ack_test_threshold")
    /\ UNCHANGED <<slow_start_threshold, state, retransmissions, frame>>
    /\ TransportFrame

\* slow start: if self.congestion_window >= self.slow_start_threshold:
ack_test_threshold(t) ==
    /\ pc[t] = "ack_test_threshold"
    /\ Goto(t, IF ReachedThreshold(congestion_window, slow_start_threshold)
               THEN "ack_write_avoidance" ELSE "done")
    /\ UNCHANGED <<cc_vars, frame>>
    /\ TransportFrame

\* self.state = "congestion_avoidance" (end of the slow-start and of the
\* fast-recovery branch)
ack_write_avoidance(t) ==
    /\ pc[t] = "ack_write_avoidance"
    /\ state' = "congestion_avoidance"
    /\ Goto(t, "done")
    /\ UNCHANGED <<congestion_window, slow_start_threshold, retransmissions, frame>>
    /\ TransportFrame

\* elif self.state == "congestion_avoidance":
ack_test_avoidance(t) ==
    /\ pc[t] = "ack_test_avoidance"
    /\ Goto(t, IF state = "congestion_avoidance" THEN "ack_read_inverse"
               ELSE "ack_test_recovery")
    /\ UNCHANGED <<cc_vars, frame>>
    /\ TransportFrame

\* avoidance: self.congestion_window + 1 / self.congestion_window is evaluated
ack_read_inverse(t) ==
    /\ pc[t] = "ack_read_inverse"
    /\ frame' = [frame EXCEPT ![t].tmp = WindowPlusInverse(congestion_window)]
    /\ Goto(t, "ack_write_inverse")
    /\ UNCHANGED cc_vars
    /\ TransportFrame

\* avoidance: self.congestion_window = <the value evaluated>
ack_write_inverse(t) ==
    /\ pc[t] = "ack_write_inverse"
    /\ congestion_window' = frame[t].tmp
    /\ Goto(t, "done")
    /\ UNCHANGED <<slow_start_threshold, state, retransmissions, frame>>
    /\ TransportFrame

\* elif self.state == "fast_recovery":
ack_test_recovery(t) ==
    /\ pc[t] = "ack_test_recovery"
    /\ Goto(t, IF state = "fast_recovery" THEN "ack_read_threshold" ELSE "done")
    /\ UNCHANGED <<cc_vars, frame>>
    /\ TransportFrame

\* recovery: self.slow_start_threshold is evaluated
ack_read_threshold(t) ==
    /\ pc[t] = "ack_read_threshold"
    /\ frame' = [frame EXCEPT ![t].tmp = slow_start_threshold]
    /\ Goto(t, "ack_write_threshold")
    /\ UNCHANGED cc_vars
    /\ TransportFrame

\* recovery: self.congestion_window = <the value evaluated>
ack_write_threshold(t) ==
    /\ pc[t] = "ack_write_threshold"
    /\ congestion_window' = [num |-> frame[t].tmp, den |-> 1]
    /\ Goto(t, "ack_write_avoidance")
    /\ UNCHANGED <<slow_start_threshold, state, retransmissions, frame>>
    /\ TransportFrame

\* both calls have returned
calls_return ==
    /\ \A t \in TransportThreads : pc[t] = "done"
    /\ pc' = [t \in TransportThreads |-> "idle"]
    /\ frame' = [t \in TransportThreads |-> NoCall]
    /\ last_call' = [op |-> "concurrent_calls", arg |-> frame["loss_path"].arg,
                     ret |-> "None"]
    /\ transport_events' = transport_events + 1
    /\ UNCHANGED <<abr_vars, buf_vars, cc_vars, optimization_logs, lock>>

\* RTMPCongestionController() handed to the two transport threads
InitTransport ==
    /\ CongestionInit
    /\ BitrateInit(DefaultInitialBitrate)
    /\ BufferInit(DefaultMaxBufferSize)
    /\ optimization_logs = <<>>
    /\ transport_events = 0
    /\ last_call = [op |-> "RTMPCongestionController", arg |-> "None", ret |-> "None"]
    /\ lock = "none"
    /\ pc = [t \in TransportThreads |-> "idle"]
    /\ frame = [t \in TransportThreads |-> NoCall]

NextTransport ==
    \/ \E is_timeout \in BOOLEAN, bytes_acked \in AckSizes :
          concurrent_calls(is_timeout, bytes_acked)
    \/ loss_read_window("loss_path")
    \/ loss_write_threshold("loss_path")
    \/ loss_reset_window("loss_path")
    \/ loss_write_slow_start("loss_path")
    \/ loss_read_threshold("loss_path")
    \/ loss_write_window("loss_path")
    \/ loss_write_fast_recovery("loss_path")
    \/ ack_test_slow_start("ack_path")
    \/ ack_read_window("ack_path")
    \/ ack_write_window("ack_path")
    \/ ack_test_threshold("ack_path")
    \/ ack_write_avoidance("ack_path")
    \/ ack_test_avoidance("ack_path")
    \/ ack_read_inverse("ack_path")
    \/ ack_write_inverse("ack_path")
    \/ ack_test_recovery("ack_path")
    \/ ack_read_threshold("ack_path")
    \/ ack_write_threshold("ack_path")
    \/ calls_return

SpecTransport == InitTransport /\ [][NextTransport]_vars

---------------------------------------------------------------------------
(* RTMPOptimizer shared by threads: one thread runs optimize, one calls    *)
(* get_optimization_report, a third feeds the bitrate controller directly. *)
(* optimize and the report are followed one call or read at a time; each   *)
(* region under the bitrate controller's lock is one step.                 *)

TickThreads == {"ticker", "reporter"}

\* the samples of this run
TickSamples == {LossySample}

\* the record optimize fills in, before any field is read
EmptyLog ==
    [optimal_bitrate |-> 0, congestion_window |-> 0, buffer_stats |-> "None",
     network_state |-> "None", congestion_state |-> "None"]

\* the record get_optimization_report fills in, before any field is read
EmptyReport ==
    [total_bytes_sent |-> 0, final_bitrate |-> 0, network_state |-> "None",
     buffer_stats |-> "None", optimization_logs_count |-> 0, recent_logs |-> <<>>]

\* a step of a thread that only moves on and fills its frame
TickFrame == UNCHANGED <<abr_vars, buf_vars, cc_vars, optimization_logs, last_call,
                         transport_events, lock>>

\* optimize(stats) is called
tick_call(t, stats) ==
    /\ pc[t] = "idle"
    /\ ThreadFeed(stats)
    /\ Len(optimization_logs) < MaxObservedTicks
    /\ Goto(t, "tick_update")
    /\ frame' = [frame EXCEPT ![t] = [op |-> "optimize", arg |-> stats,
                                      ret |-> EmptyLog]]
    /\ TickFrame

\* self.adaptive_bitrate.update_network_stats(stats)
tick_update(t) ==
    /\ pc[t] = "tick_update"
    /\ LockFree
    /\ UpdateBody(frame[t].arg)
    /\ Goto(t, "tick_level")
    /\ UNCHANGED <<buf_vars, cc_vars, optimization_logs, last_call, transport_events,
                   lock, frame>>

\* self.buffer_manager.update_buffer_level(stats.buffer_level)
tick_level(t) ==
    /\ pc[t] = "tick_level"
    /\ UpdateLevelBody(frame[t].arg.buffer_level)
    /\ Goto(t, "tick_bitrate")
    /\ UNCHANGED <<abr_vars, cc_vars, optimization_logs, last_call, transport_events,
                   lock, frame>>

\* optimal_bitrate = self.adaptive_bitrate.get_optimal_bitrate()
tick_bitrate(t) ==
    /\ pc[t] = "tick_bitrate"
    /\ LockFree
    /\ frame' = [frame EXCEPT ![t].ret.optimal_bitrate = current_bitrate]
    /\ Goto(t, "tick_window")
    /\ TickFrame

\* congestion_window = self.congestion_controller.get_congestion_window()
tick_window(t) ==
    /\ pc[t] = "tick_window"
    /\ frame' = [frame EXCEPT ![t].ret.congestion_window = WindowFloor(congestion_window)]
    /\ Goto(t, "tick_buffer")
    /\ TickFrame

\* buffer_stats = self.buffer_manager.get_buffer_stats()
tick_buffer(t) ==
    /\ pc[t] = "tick_buffer"
    /\ frame' = [frame EXCEPT ![t].ret.buffer_stats = BufferStats]
    /\ Goto(t, "tick_network_state")
    /\ TickFrame

\* "network_state": self.adaptive_bitrate.get_network_state()
tick_network_state(t) ==
    /\ pc[t] = "tick_network_state"
    /\ LockFree
    /\ frame' = [frame EXCEPT ![t].ret.network_state = network_state]
    /\ Goto(t, "tick_congestion_state")
    /\ TickFrame

\* "congestion_state": self.congestion_controller.get_state()
tick_congestion_state(t) ==
    /\ pc[t] = "tick_congestion_state"
    /\ frame' = [frame EXCEPT ![t].ret.congestion_state = state]
    /\ Goto(t, "tick_append")
    /\ TickFrame

\* self.optimization_logs.append(optimization_log)
tick_append(t) ==
    /\ pc[t] = "tick_append"
    /\ optimization_logs' = Append(optimization_logs, frame[t].ret)
    /\ Goto(t, "tick_return")
    /\ UNCHANGED <<abr_vars, buf_vars, cc_vars, last_call, transport_events, lock, frame>>

\* return optimization_log
tick_return(t) ==
    /\ pc[t] = "tick_return"
    /\ last_call' = frame[t]
    /\ Goto(t, "idle")
    /\ frame' = [frame EXCEPT ![t] = NoCall]
    /\ UNCHANGED <<abr_vars, buf_vars, cc_vars, optimization_logs, transport_events,
                   lock>>

\* another thread calls optimizer.adaptive_bitrate.update_network_stats(stats)
other_update(stats) ==
    /\ ThreadFeed(stats)
    /\ LockFree
    /\ UpdateBody(stats)
    /\ last_call' = [op |-> "update_network_stats", arg |-> stats, ret |-> "None"]
    /\ UNCHANGED <<buf_vars, cc_vars, optimization_logs, transport_events, thread_vars>>

\* get_optimization_report() is called
report_call(t) ==
    /\ pc[t] = "idle"
    /\ Goto(t, "report_bitrate")
    /\ frame' = [frame EXCEPT ![t] = [op |-> "get_optimization_report",
                                      arg |-> "None", ret |-> EmptyReport]]
    /\ TickFrame

\* "final_bitrate": self.adaptive_bitrate.get_optimal_bitrate()
report_bitrate(t) ==
    /\ pc[t] = "report_bitrate"
    /\ LockFree
    /\ frame' = [frame EXCEPT ![t].ret.final_bitrate = current_bitrate]
    /\ Goto(t, "report_network_state")
    /\ TickFrame

\* "network_state": self.adaptive_bitrate.get_network_state()
report_network_state(t) ==
    /\ pc[t] = "report_network_state"
    /\ LockFree
    /\ frame' = [frame EXCEPT ![t].ret.network_state = network_state]
    /\ Goto(t, "report_buffer")
    /\ TickFrame

\* "buffer_stats": self.buffer_manager.get_buffer_stats()
report_buffer(t) ==
    /\ pc[t] = "report_buffer"
    /\ frame' = [frame EXCEPT ![t].ret.buffer_stats = BufferStats]
    /\ Goto(t, "report_count")
    /\ TickFrame

\* "optimization_logs_count": len(self.optimization_logs)
report_count(t) ==
    /\ pc[t] = "report_count"
    /\ frame' = [frame EXCEPT ![t].ret.optimization_logs_count = Len(optimization_logs)]
    /\ Goto(t, "report_recent")
    /\ TickFrame

\* "recent_logs": ... if self.optimization_logs else []
report_test_logs(t) ==
    /\ pc[t] = "report_recent"
    /\ IF optimization_logs # <<>>
       THEN /\ Goto(t, "report_slice")
            /\ UNCHANGED frame
       ELSE /\ Goto(t, "report_return")
            /\ frame' = [frame EXCEPT ![t].ret.recent_logs = <<>>]
    /\ TickFrame

\* "recent_logs": self.optimization_logs[-10:]
report_slice(t) ==
    /\ pc[t] = "report_slice"
    /\ frame' = [frame EXCEPT ![t].ret.recent_logs = LastN(optimization_logs, RecentLogs)]
    /\ Goto(t, "report_return")
    /\ TickFrame

\* the report is returned
report_return(t) ==
    /\ pc[t] = "report_return"
    /\ last_call' = frame[t]
    /\ Goto(t, "idle")
    /\ frame' = [frame EXCEPT ![t] = NoCall]
    /\ UNCHANGED <<abr_vars, buf_vars, cc_vars, optimization_logs, transport_events,
                   lock>>

\* RTMPOptimizer() handed to the threads
InitTick ==
    /\ BitrateInit(DefaultInitialBitrate)
    /\ BufferInit(DefaultMaxBufferSize)
    /\ CongestionInit
    /\ optimization_logs = <<>>
    /\ transport_events = 0
    /\ last_call = [op |-> "RTMPOptimizer", arg |-> DefaultInitialBitrate,
                    ret |-> "None"]
    /\ lock = "none"
    /\ pc = [t \in TickThreads |-> "idle"]
    /\ frame = [t \in TickThreads |-> NoCall]

NextTick ==
    \/ \E stats \in TickSamples : tick_call("ticker", stats)
    \/ tick_update("ticker")
    \/ tick_level("ticker")
    \/ tick_bitrate("ticker")
    \/ tick_window("ticker")
    \/ tick_buffer("ticker")
    \/ tick_network_state("ticker")
    \/ tick_congestion_state("ticker")
    \/ tick_append("ticker")
    \/ tick_return("ticker")
    \/ \E stats \in TickSamples : other_update(stats)
    \/ report_call("reporter")
    \/ report_bitrate("reporter")
    \/ report_network_state("reporter")
    \/ report_buffer("reporter")
    \/ report_count("reporter")
    \/ report_test_logs("reporter")
    \/ report_slice("reporter")
    \/ report_return("reporter")

SpecTick == InitTick /\ [][NextTick]_vars

---------------------------------------------------------------------------
(* Claims *)

\* C1: after every update_network_stats call, whatever the initial bitrate,
\* min_bitrate <= current_bitrate <= max_bitrate.
C1_BitrateWithinBounds ==
    last_call.op = "update_network_stats"
        => min_bitrate <= current_bitrate /\ current_bitrate <= max_bitrate

\* C2: after any sequence of on_packet_loss and on_ack_received calls from the
\* initial state, congestion_window >= 1.
C2_WindowAtLeastOne == congestion_window.num >= congestion_window.den

\* C2 witness: a timeout has just taken the window down to its smallest value.
C2_Witness ==
    /\ last_call.op = "on_packet_loss"
    /\ last_call.arg = TRUE
    /\ congestion_window = [num |-> 1, den |-> 1]
    /\ slow_start_threshold = 2

\* C3: after any update_buffer_level call with an arbitrary integer level,
\* 0 <= current_buffer_size <= max_buffer_size.
C3_BufferSizeWithinCapacity ==
    last_call.op = "update_buffer_level"
        => 0 <= current_buffer_size /\ current_buffer_size <= max_buffer_size

\* C4: should_drop_packets returns true exactly when current_buffer_size >=
\* max_buffer_size; a call at capacity adds exactly 1 to drop_count, a call below
\* capacity (the high watermark included) returns false and leaves drop_count.
C4_DropRule ==
    [][last_call'.op = "should_drop_packets" =>
          /\ last_call'.ret = (current_buffer_size >= max_buffer_size)
          /\ drop_count' = drop_count
                 + (IF current_buffer_size >= max_buffer_size THEN 1 ELSE 0)
          /\ current_buffer_size' = current_buffer_size]_vars

\* C4 witness: after a drop at capacity the level went to max_buffer_size - 1,
\* above the high watermark, and the call returned false.
C4_Witness ==
    /\ last_call.op = "should_drop_packets"
    /\ last_call.ret = FALSE
    /\ current_buffer_size = max_buffer_size - 1
    /\ buffer_state = "high"
    /\ drop_count = 2

\* the last 10 samples fed all carry packet_loss_rate 0.10
SustainedLoss(window) ==
    /\ Len(window) >= DetectionSamples
    /\ \A i \in Len(window) - DetectionSamples + 1 .. Len(window) :
          window[i].packet_loss_rate = 10

\* C5: once 10 or more consecutive samples with packet_loss_rate 0.10 have been
\* fed, network_state is congested, and every further such update leaves
\* current_bitrate at or below its previous value, an unchanged value being
\* >= min_bitrate.
C5_SustainedLossLowersBitrate ==
    [][(/\ last_call'.op = "update_network_stats"
        /\ stats_window' # stats_window
        /\ SustainedLoss(stats_window)
        /\ SustainedLoss(stats_window'))
       => /\ network_state' = "congested"
          /\ current_bitrate' <= current_bitrate
          /\ current_bitrate' = current_bitrate => current_bitrate' >= min_bitrate]_vars

\* C6: in slow_start each on_ack_received adds exactly 1 to congestion_window, and
\* the state becomes congestion_avoidance on exactly the ack that brings the window
\* to slow_start_threshold or above (window 1, threshold 10: the 9th ack, not the
\* 8th).
C6_SlowStartGrowth ==
    [][(last_call'.op = "on_ack_received" /\ state = "slow_start")
       => /\ congestion_window'.den = congestion_window.den
          /\ congestion_window'.num = congestion_window.num + congestion_window.den
          /\ state' \in {"slow_start", "congestion_avoidance"}
          /\ state' = "congestion_avoidance"
                <=> congestion_window'.num >= slow_start_threshold * congestion_window'.den
          /\ (congestion_window = [num |-> 9, den |-> 1] /\ slow_start_threshold = 10)
                => (congestion_window' = [num |-> 10, den |-> 1]
                    /\ state' = "congestion_avoidance")
          /\ (congestion_window = [num |-> 8, den |-> 1] /\ slow_start_threshold = 10)
                => state' = "slow_start"]_vars

\* C6 witness: window 1, threshold 10, then 8 acks: window 9, still slow_start.
C6_Witness ==
    /\ last_call.op = "on_ack_received"
    /\ state = "slow_start"
    /\ slow_start_threshold = 10
    /\ congestion_window = [num |-> 9, den |-> 1]

\* C7: on_packet_loss(is_timeout = True) from any state sets congestion_window to 1
\* and state to slow_start; from congestion_window 16 it sets slow_start_threshold
\* to 8.
C7_TimeoutResets ==
    [][(last_call'.op = "on_packet_loss" /\ last_call'.arg = TRUE)
       => /\ congestion_window' = [num |-> 1, den |-> 1]
          /\ state' = "slow_start"
          /\ congestion_window = [num |-> 16, den |-> 1] => slow_start_threshold' = 8]_vars

\* C7 witness: a timeout has left threshold 8, window 1, slow_start.
C7_Witness ==
    /\ last_call.op = "on_packet_loss"
    /\ last_call.arg = TRUE
    /\ slow_start_threshold = 8
    /\ congestion_window = [num |-> 1, den |-> 1]
    /\ state = "slow_start"

\* C8: from current_bitrate 3000000 with no congestion detected, an update whose
\* smoothed throughput (mean of the last up to 5 samples) is 4000000 sets
\* target_bitrate to 3300000 and leaves current_bitrate at 3060000.
C8_IncreaseScenario ==
    [][(/\ last_call'.op = "update_network_stats"
        /\ stats_window' # stats_window
        /\ current_bitrate = 3000000
        /\ ~congestion_detected'
        /\ SumSeq(LastN(throughput_history', SmoothingSamples))
              = 4000000 * Len(LastN(throughput_history', SmoothingSamples)))
       => /\ target_bitrate' = 3300000
          /\ current_bitrate' = 3060000]_vars

\* C8 witness: the first tick of a controller built with 3000000, fed 4000000.
C8_Witness ==
    /\ last_call.op = "update_network_stats"
    /\ throughput_history = <<4000000>>
    /\ ~congestion_detected
    /\ target_bitrate = 3300000
    /\ current_bitrate = 3060000

\* C9: with max_buffer_size 1000, update_buffer_level(850) gives state high,
\* update_buffer_level(150) normal and update_buffer_level(190) low.
C9_BufferScenario ==
    (last_call.op = "update_buffer_level" /\ max_buffer_size = 1000)
        => /\ last_call.arg = 850 => buffer_state = "high"
           /\ last_call.arg = 150 => buffer_state = "normal"
           /\ last_call.arg = 190 => buffer_state = "low"

\* C9 as amended: with max_buffer_size 1000, update_buffer_level(850) gives state
\* high, update_buffer_level(150) gives low (150 <= 200) and update_buffer_level(190)
\* gives low; normal is the state of the levels strictly between 200 and 800.
C9_BufferScenarioAmended ==
    (last_call.op = "update_buffer_level" /\ max_buffer_size = 1000)
        => /\ last_call.arg = 850 => buffer_state = "high"
           /\ last_call.arg = 150 => buffer_state = "low"
           /\ last_call.arg = 190 => buffer_state = "low"
           /\ (200 < last_call.arg /\ last_call.arg < 800) => buffer_state = "normal"

\* C9 witness: the three calls of the scenario, in order.
C9_Witness ==
    /\ last_call.op = "update_buffer_level"
    /\ max_buffer_size = 1000
    /\ buffer_utilization = <<850, 150, 190>>
    /\ buffer_state = "low"

\* C10: optimize(stats) applies update_network_stats(stats) and
\* update_buffer_level(stats.buffer_level), then returns a record holding the
\* bitrate and network state left by that update, stats.buffer_level as the buffer
\* size, and the floor of the congestion window and the congestion state as they
\* are at that moment; the record is appended as the last log entry.
C10_DecisionRecord ==
    [][last_call'.op = "optimize" =>
          /\ stats_window' = DequeAppend(stats_window, last_call'.arg, StatsWindowMaxlen)
          /\ buffer_utilization' = Append(buffer_utilization, last_call'.arg.buffer_level)
          /\ current_buffer_size' = last_call'.arg.buffer_level
          /\ last_call'.ret.optimal_bitrate = current_bitrate'
          /\ last_call'.ret.buffer_stats.current_size = last_call'.arg.buffer_level
          /\ last_call'.ret.network_state = network_state'
          /\ last_call'.ret.congestion_window * congestion_window'.den
                <= congestion_window'.num
          /\ (last_call'.ret.congestion_window + 1) * congestion_window'.den
                > congestion_window'.num
          /\ last_call'.ret.congestion_state = state'
          /\ <<congestion_window', state'>> = <<congestion_window, state>>
          /\ optimization_logs' = Append(optimization_logs, last_call'.ret)]_vars

\* C10 witness: the 10th tick under loss, which turned the network state to
\* congested, taken while the congestion window holds a fraction.
C10_Witness ==
    /\ last_call.op = "optimize"
    /\ Len(optimization_logs) = DetectionSamples
    /\ last_call.ret.network_state = "congested"
    /\ optimization_logs[Len(optimization_logs) - 1].network_state = "stable"
    /\ congestion_window.den > 1
    /\ last_call.ret.congestion_state = "congestion_avoidance"

\* C11: after n optimize calls get_optimization_report returns
\* optimization_logs_count = n and recent_logs = the last min(n, 10) records
\* optimize returned, in the order they were produced (empty when n = 0); the
\* report changes neither the log nor the state of any controller.
C11_ReportLastTen ==
    [][last_call'.op = "get_optimization_report" =>
          LET n      == Len(buffer_utilization)
              recent == last_call'.ret.recent_logs
          IN  /\ last_call'.ret.optimization_logs_count = n
              /\ Len(optimization_logs) = n
              /\ Len(recent) = Min(n, 10)
              /\ \A i \in 1 .. Len(recent) :
                    recent[i] = optimization_logs[n - Len(recent) + i]
              /\ UNCHANGED <<abr_vars, buf_vars, cc_vars, optimization_logs>>]_vars

\* C11 witness: a report taken after 11 ticks, holding 10 records, the first of
\* which is the second record logged.
C11_Witness ==
    /\ last_call.op = "get_optimization_report"
    /\ Len(optimization_logs) = 11
    /\ last_call.ret.optimization_logs_count = 11
    /\ Len(last_call.ret.recent_logs) = 10
    /\ last_call.ret.recent_logs[1] = optimization_logs[2]
    /\ optimization_logs[1] # optimization_logs[2]

\* C12: an out-of-range level (a negative one) passed to update_buffer_level is
\* rejected with an InvalidSample error surfaced to the caller, and the buffer
\* state is left unchanged.
C12_InvalidInputRejected ==
    [][(last_call'.op = "update_buffer_level" /\ last_call'.arg < 0)
       => /\ last_call'.ret = "InvalidSample"
          /\ UNCHANGED buf_vars]_vars

\* the statements of update_network_stats executed inside its with block
InsideUpdate ==
    {"update_append_stats", "update_append_throughput", "update_detect",
     "update_target", "update_smooth", "update_unlock"}

\* C13: update_network_stats runs its appends, detection and adjustment as one
\* critical section on the lock the getters take: whenever get_optimal_bitrate
\* or get_network_state reads its value, no update is part-way through (both
\* windows hold the same number of samples, no thread stands between the first
\* append and the end of the adjustment), and the value read is the one returned.
C13_ReadersSeeWholeUpdates ==
    [][\A r \in Readers :
          (pc[r] = "get_read" /\ pc'[r] = "get_unlock")
          => /\ \A w \in Threads \ {r} : pc[w] \notin InsideUpdate
             /\ Len(stats_window) = Len(throughput_history)
             /\ lock = r
             /\ frame'[r].ret = IF frame[r].op = "get_optimal_bitrate"
                                THEN current_bitrate ELSE network_state]_vars

\* C13 witness: the reader asked for the network state while the 10th update was
\* between detection and adjustment, and has now read congested after that
\* update finished; the writer is already waiting with the next sample.
C13_Witness ==
    /\ pc["reader"] = "get_unlock"
    /\ frame["reader"].op = "get_network_state"
    /\ frame["reader"].ret = "congested"
    /\ last_call.op = "update_network_stats"
    /\ Len(stats_window) = DetectionSamples
    /\ pc["writer"] = "update_lock"

\* C14: every on_packet_loss call sets slow_start_threshold to exactly
\* max(w/2, 2), w the congestion_window before the call and w/2 its exact,
\* unfloored half; slow_start_threshold >= 2 in every reachable state.
C14_ThresholdExactHalf ==
    [][/\ last_call'.op = "on_packet_loss"
          => IF congestion_window.num >= 4 * congestion_window.den
             THEN 2 * congestion_window.den * slow_start_threshold'
                      = congestion_window.num
             ELSE slow_start_threshold' = 2
       /\ slow_start_threshold' >= 2]_vars

\* C14 as amended: every on_packet_loss call sets slow_start_threshold to
\* max(floor(w/2), 2), the half rounded down to a whole number;
\* slow_start_threshold >= 2 in every reachable state.
C14_ThresholdFlooredHalf ==
    [][/\ last_call'.op = "on_packet_loss"
          => IF congestion_window.num >= 6 * congestion_window.den
             THEN /\ 2 * congestion_window.den * slow_start_threshold'
                         <= congestion_window.num
                  /\ congestion_window.num
                         < 2 * congestion_window.den * (slow_start_threshold' + 1)
             ELSE slow_start_threshold' = 2
       /\ slow_start_threshold' >= 2]_vars

\* C14 witness: a loss at window 503 (an odd one) has left threshold 251.
C14_Witness ==
    /\ last_call.op = "on_packet_loss"
    /\ slow_start_threshold = 251
    /\ retransmissions = 0
    /\ congestion_window = [num |-> 254, den |-> 1]

\* C15: on_packet_loss(is_timeout = False) from any state sets congestion_window
\* to the newly computed slow_start_threshold + 3 and state to fast_recovery.
C15_FastRetransmit ==
    [][(last_call'.op = "on_packet_loss" /\ last_call'.arg = FALSE)
       => /\ congestion_window' = [num |-> slow_start_threshold' + 3, den |-> 1]
          /\ state' = "fast_recovery"
          /\ retransmissions' = retransmissions]_vars

\* C15 witness: a fast retransmit at window 1, right after a timeout, has left
\* threshold 2 and window 5.
C15_Witness ==
    /\ last_call.op = "on_packet_loss"
    /\ last_call.arg = FALSE
    /\ state = "fast_recovery"
    /\ slow_start_threshold = 2
    /\ congestion_window = [num |-> 5, den |-> 1]
    /\ retransmissions = 1

\* C16: the first on_ack_received in fast_recovery sets congestion_window to
\* slow_start_threshold and moves to congestion_avoidance; no ack leaves the
\* controller in fast_recovery, and fast_recovery is entered only by an
\* on_packet_loss call that is not a timeout.
C16_RecoverySingleShot ==
    [][/\ (last_call'.op = "on_ack_received" /\ state = "fast_recovery")
          => /\ congestion_window' = [num |-> slow_start_threshold, den |-> 1]
             /\ state' = "congestion_avoidance"
             /\ slow_start_threshold' = slow_start_threshold
       /\ last_call'.op = "on_ack_received" => state' # "fast_recovery"
       /\ (state' = "fast_recovery" /\ cc_vars' # cc_vars)
          => (last_call'.op = "on_packet_loss" /\ last_call'.arg = FALSE)]_vars

\* C16 witness: the ack after a fast retransmit at the initial window: window
\* back at threshold 500, congestion_avoidance.
C16_Witness ==
    /\ last_call.op = "on_ack_received"
    /\ state = "congestion_avoidance"
    /\ slow_start_threshold = 500
    /\ congestion_window = [num |-> 500, den |-> 1]
    /\ retransmissions = 0

\* the measurements of the claims below, on whole numbers: sums over the last 10
\* samples of a window (loss in percent), and over two stretches of the history
LossSum(window) ==
    SumSeq([i \in 1 .. 10 |-> window[Len(window) - 10 + i].packet_loss_rate])
RttSum(window) ==
    SumSeq([i \in 1 .. 10 |-> window[Len(window) - 10 + i].rtt_ms])
RttSquareSum(window) ==
    SumSeq([i \in 1 .. 10 |-> window[Len(window) - 10 + i].rtt_ms
                                 * window[Len(window) - 10 + i].rtt_ms])
ThroughputSum(history, back) ==
    SumSeq([i \in 1 .. 10 |-> history[Len(history) - back + i]])

\* mean loss over the last 10 samples > 0.05
HighLoss(window) == LossSum(window) > 5 * 10
\* variance of the RTT over the last 10 samples > 100
HighJitter(window) ==
    10 * RttSquareSum(window) - RttSum(window) * RttSum(window) > 100 * 10 * 10
\* at least 20 throughputs, and mean(last 10) < 0.8 x mean(the 10 before those)
LowThroughput(history) ==
    /\ Len(history) >= 20
    /\ 10 * ThroughputSum(history, 10) < 8 * ThroughputSum(history, 20)

\* C17: once 10 samples are held, each update classifies the last 10 by a strict
\* priority chain: mean loss > 0.05 gives congested whatever the RTT variance and
\* the throughput; otherwise RTT variance > 100 gives unstable whatever the
\* throughput; otherwise a throughput drop (20 values held, mean of the last 10
\* below 0.8 x mean of the 10 before) gives degraded; otherwise stable.
\* congestion_detected is true exactly when the state is not stable.
C17_DetectionPriority ==
    [][(/\ last_call'.op = "update_network_stats"
        /\ stats_window' # stats_window
        /\ Len(stats_window') >= 10)
       => /\ network_state' =
                IF HighLoss(stats_window') THEN "congested"
                ELSE IF HighJitter(stats_window') THEN "unstable"
                ELSE IF LowThroughput(throughput_history') THEN "degraded"
                ELSE "stable"
          /\ congestion_detected' = (network_state' # "stable")]_vars

\* C17 witness: an update found high loss together with high jitter and
\* classified the network congested.
C17_Witness ==
    /\ last_call.op = "update_network_stats"
    /\ Len(stats_window) >= 10
    /\ HighLoss(stats_window)
    /\ HighJitter(stats_window)
    /\ network_state = "congested"
    /\ congestion_detected

\* C17, a second case: high jitter together with a throughput drop, classified
\* unstable.
C17_JitterBeforeThroughput ==
    /\ last_call.op = "update_network_stats"
    /\ Len(stats_window) >= 20
    /\ ~HighLoss(stats_window)
    /\ HighJitter(stats_window)
    /\ LowThroughput(throughput_history)
    /\ network_state = "unstable"

\* the throughputs the adjustment averages: the last up to 5 of the history
SmoothedSum(history) == SumSeq(LastN(history, 5))
SmoothedCount(history) == Len(LastN(history, 5))

\* C18: an update that leaves fewer than 10 samples in stats_window runs no
\* detection: network_state and congestion_detected stay as they were and the
\* call returns normally; the adjustment still runs (a smoothed throughput
\* above 1.2 x current raises the target to min(max_bitrate, 1.1 x current), and
\* current_bitrate moves to the smoothed value of current and target).
C18_WarmUp ==
    [][(/\ last_call'.op = "update_network_stats"
        /\ stats_window' # stats_window
        /\ Len(stats_window') < 10)
       => /\ network_state' = network_state
          /\ congestion_detected' = congestion_detected
          /\ last_call'.ret = "None"
          /\ 5 * SmoothedSum(throughput_history')
                > 6 * current_bitrate * SmoothedCount(throughput_history')
             => target_bitrate' = Min(max_bitrate, (11 * current_bitrate) \div 10)
          /\ 5 * current_bitrate' <= 4 * current_bitrate + target_bitrate'
          /\ 5 * current_bitrate' > 4 * current_bitrate + target_bitrate' - 10]_vars

\* C18 witness: the 9th update of a run of lossy samples: still stable, nothing
\* detected, the bitrate raised by the adjustments.
C18_Witness ==
    /\ last_call.op = "update_network_stats"
    /\ Len(stats_window) = 9
    /\ \A i \in 1 .. 9 : stats_window[i].packet_loss_rate = 10
    /\ network_state = "stable"
    /\ ~congestion_detected
    /\ current_bitrate > DefaultInitialBitrate

\* the reduction factor of a network state, in tenths
ReductionTenths(netstate) ==
    CASE netstate = "congested" -> 5 [] netstate = "unstable" -> 8 [] OTHER -> 7

C20_SmoothingRounds ==
    [][(last_call'.op = "update_network_stats" /\ stats_window' # stats_window)
       => LET exact5 == 4 * current_bitrate + target_bitrate'
          IN  /\ 2 * (5 * current_bitrate' - exact5) <= 5
              /\ 2 * (exact5 - 5 * current_bitrate') <= 5
              /\ target_bitrate' # target_bitrate
                 => \/ congestion_detected'
                    \/ 5 * SmoothedSum(throughput_history')
                          >= 6 * current_bitrate * SmoothedCount(throughput_history')]_vars

\* C20 as amended: every update ends by setting current_bitrate to
\* int(0.8 x current + 0.2 x target), the sum truncated to a whole number: the
\* floor of (4 x current + target) / 5, or 1 below it when that quotient is whole
\* and the double-precision sum falls just under it; when neither the reduction
\* nor the increase rule fires the target keeps its value.
C20_SmoothingTruncates ==
    [][(last_call'.op = "update_network_stats" /\ stats_window' # stats_window)
       => LET exact5 == 4 * current_bitrate + target_bitrate'
          IN  /\ 5 * current_bitrate' <= exact5
              /\ exact5 % 5 # 0 => exact5 < 5 * current_bitrate' + 5
              /\ exact5 % 5 = 0 => exact5 <= 5 * current_bitrate' + 5
              /\ target_bitrate' # target_bitrate
                 => \/ congestion_detected'
                    \/ 5 * SmoothedSum(throughput_history')
                          >= 6 * current_bitrate * SmoothedCount(throughput_history')]_vars

\* C20 witness: the 5th update of a default controller fed 4000000: the sum
\* 3312241.8 was truncated to 3312241.
C20_Witness ==
    /\ last_call.op = "update_network_stats"
    /\ Len(stats_window) = 5
    /\ target_bitrate = 3572025
    /\ current_bitrate = 3312241

\* C21: after update_buffer_level(level) the state is low if level <= 20% of
\* max_buffer_size, high if level >= 80% of max_buffer_size, normal otherwise:
\* a function of that level alone, whatever the earlier levels and state.
C21_NoHysteresis ==
    [][last_call'.op = "update_buffer_level" =>
          buffer_state' = IF 5 * last_call'.arg <= max_buffer_size THEN "low"
                          ELSE IF 5 * last_call'.arg >= 4 * max_buffer_size THEN "high"
                          ELSE "normal"]_vars

\* C21 as amended: after update_buffer_level(level) the state is low if level <=
\* the whole part of 20% of max_buffer_size, high if level >= the whole part of
\* 80% of max_buffer_size, normal otherwise: a function of that level alone,
\* whatever the earlier levels and state.
C21_NoHysteresisWholeThresholds ==
    [][last_call'.op = "update_buffer_level" =>
          buffer_state' = IF last_call'.arg <= max_buffer_size \div 5 THEN "low"
                          ELSE IF last_call'.arg >= (4 * max_buffer_size) \div 5
                               THEN "high"
                          ELSE "normal"]_vars

\* C21 witness: capacity 999; after a high and a low level, level 799 (under
\* 80% of 999, at its whole part) gave high.
C21_Witness ==
    /\ last_call.op = "update_buffer_level"
    /\ max_buffer_size = 999
    /\ buffer_utilization = <<850, 0, 799>>
    /\ buffer_state = "high"

\* the bitrate controller as a record
ControllerRecord(current, target, window, history, detected, netstate) ==
    [current |-> current, target |-> target, window |-> window,
     history |-> history, detected |-> detected, netstate |-> netstate]

\* C22: optimize never changes congestion_window, slow_start_threshold, state or
\* retransmissions (only on_packet_loss and on_ack_received do), and the
\* congestion window never influences the bitrate: a tick moves the bitrate
\* controller exactly as the sample alone moves it from its state before the
\* tick, the decision reports that bitrate and network state, and a loss or an
\* ack leaves the bitrate controller untouched; so runs with the same samples
\* and different loss/ack sequences decide alike.
C22_Decoupling ==
    [][/\ last_call'.op = "optimize"
          => /\ cc_vars' = cc_vars
             /\ ControllerRecord(current_bitrate', target_bitrate', stats_window',
                                 throughput_history', congestion_detected',
                                 network_state')
                   = ReplayOne(ControllerRecord(current_bitrate, target_bitrate,
                                                stats_window, throughput_history,
                                                congestion_detected, network_state),
                               last_call'.arg)
             /\ last_call'.ret.optimal_bitrate = current_bitrate'
             /\ last_call'.ret.network_state = network_state'
       /\ last_call'.op \in {"on_packet_loss", "on_ack_received"}
          => abr_vars' = abr_vars
       /\ cc_vars' # cc_vars
          => last_call'.op \in {"on_packet_loss", "on_ack_received"}]_vars

\* C22 witness: a tick taken after losses shrank the congestion window that an
\* earlier tick recorded, the bitrate having moved on in the meantime.
C22_Witness ==
    /\ last_call.op = "optimize"
    /\ Len(optimization_logs) >= 3
    /\ transport_events >= 2
    /\ last_call.ret.congestion_window < optimization_logs[1].congestion_window
    /\ last_call.ret.congestion_state = "fast_recovery"
    /\ last_call.ret.optimal_bitrate # optimization_logs[1].optimal_bitrate

\* on_packet_loss run alone on a congestion state
SerialLoss(s, is_timeout) ==
    IF is_timeout
    THEN [window |-> [num |-> 1, den |-> 1], threshold |-> HalvedThreshold(s.window),
          state |-> "slow_start"]
    ELSE [window |-> [num |-> HalvedThreshold(s.window) + 3, den |-> 1],
          threshold |-> HalvedThreshold(s.window), state |-> "fast_recovery"]

\* on_ack_received run alone on a congestion state
SerialAck(s) ==
    CASE s.state = "slow_start" ->
           [window |-> WindowPlusOne(s.window), threshold |-> s.threshold,
            state |-> IF ReachedThreshold(WindowPlusOne(s.window), s.threshold)
                      THEN "congestion_avoidance" ELSE "slow_start"]
      [] s.state = "congestion_avoidance" ->
           [window |-> WindowPlusInverse(s.window), threshold |-> s.threshold,
            state |-> "congestion_avoidance"]
      [] OTHER ->
           [window |-> [num |-> s.threshold, den |-> 1], threshold |-> s.threshold,
            state |-> "congestion_avoidance"]

\* C23: when on_packet_loss and on_ack_received run concurrently on two threads,
\* each is an atomic read-modify-write, so once both have returned
\* (congestion_window, slow_start_threshold, state) is what the two calls give
\* when run one after the other, in one order or the other.
C23_CallsSerialize ==
    (\A t \in TransportThreads : pc[t] = "done")
        => LET before     == frame["loss_path"].before
               is_timeout == frame["loss_path"].arg
           IN  CongestionState \in {SerialAck(SerialLoss(before, is_timeout)),
                                     SerialLoss(SerialAck(before), is_timeout)}


\* the report returned by the step, if the step returns one
ReportReturned ==
    /\ pc["reporter"] = "report_return"
    /\ pc'["reporter"] = "idle"

\* C24: a report taken while optimize runs is a consistent snapshot of the
\* decision log: recent_logs is exactly the last min(optimization_logs_count, 10)
\* entries of the log of length optimization_logs_count, and the log only ever
\* grows by the record appended to its end.
C24_ReportSnapshot ==
    [][ /\ ReportReturned =>
             LET count == last_call'.ret.optimization_logs_count
             IN  /\ count <= Len(optimization_logs)
                 /\ last_call'.ret.recent_logs =
                        LastN(SubSeq(optimization_logs, 1, count), RecentLogs)
        /\ (optimization_logs' # optimization_logs) =>
             /\ Len(optimization_logs') = Len(optimization_logs) + 1
             /\ SubSeq(optimization_logs', 1, Len(optimization_logs)) = optimization_logs
      ]_vars

\* the record returned by the step, if the step returns from optimize
DecisionReturned ==
    /\ pc["ticker"] = "tick_return"
    /\ pc'["ticker"] = "idle"

\* C28: the optimal_bitrate and the network_state of a record returned by
\* optimize are the current_bitrate and network_state left by one and the same
\* update_network_stats call, whatever another thread does meanwhile.
C28_DecisionFromOneUpdate ==
    [][DecisionReturned =>
          <<last_call'.ret.optimal_bitrate, last_call'.ret.network_state>>
              \in PairsLeft(FreshController(DefaultInitialBitrate), stats_window, 1)
       ]_vars


\* C25: the stats window holds at most 100 samples and the throughput history at
\* most 50 values; every update appends its sample to both and, when a deque is
\* full, evicts the oldest element, so each holds exactly the most recent
\* elements in arrival order.
C25_SlidingWindows ==
    [][LET stats == last_call'.arg
       IN  /\ last_call'.op = "update_network_stats"
           /\ stats_window' = LastN(Append(stats_window, stats), 100)
           /\ throughput_history' =
                  LastN(Append(throughput_history, stats.throughput_bps), 50)
           /\ Len(stats_window') = Min(Len(stats_window) + 1, 100)
           /\ Len(throughput_history') = Min(Len(throughput_history) + 1, 50)
           /\ throughput_history' =
                  LET recent == LastN(stats_window', 50)
                  IN  [i \in 1 .. Len(recent) |-> recent[i].throughput_bps]
      ]_vars

\* both deques are full and hold two kinds of sample, and the bitrate is one that
\* the 100 samples of the window alone do not produce: older samples were evicted
C25_Witness ==
    /\ last_call.op = "update_network_stats"
    /\ Len(stats_window) = 100
    /\ Len(throughput_history) = 50
    /\ stats_window[1] # stats_window[100]
    /\ <<current_bitrate, network_state>>
           \notin PairsLeft(FreshController(DefaultInitialBitrate), stats_window, 1)


\* C26: in congestion_avoidance an ack sets congestion_window to w + 1/w, w
\* being the value before, and leaves state and slow_start_threshold unchanged;
\* the stored value is not rounded, get_congestion_window reports its floor, and
\* that floor never decreases across such an ack.
C26_AvoidanceGrowth ==
    [][/\ (state = "congestion_avoidance" /\ last_call'.op = "on_ack_received") =>
            /\ congestion_window' = WindowPlusInverse(congestion_window)
            /\ congestion_window'.num % congestion_window'.den # 0
            /\ state' = state
            /\ slow_start_threshold' = slow_start_threshold
            /\ WindowFloor(congestion_window') >= WindowFloor(congestion_window)
       /\ last_call'.op = "get_congestion_window" =>
            /\ last_call'.ret * congestion_window.den <= congestion_window.num
            /\ congestion_window.num < (last_call'.ret + 1) * congestion_window.den
      ]_vars

\* an avoidance ack has just carried the reported window from 2 to 3 while the
\* stored value is 941/290
C26_Witness ==
    /\ last_call.op = "on_ack_received"
    /\ state = "congestion_avoidance"
    /\ congestion_window = [num |-> 941, den |-> 290]
    /\ WindowFloor(congestion_window) = 3

\* C27: in slow_start the congestion window is below slow_start_threshold, and
\* in congestion_avoidance it is at or above it.
C27_PhaseAndWindow ==
    /\ state = "slow_start" =>
          congestion_window.num < slow_start_threshold * congestion_window.den
    /\ state = "congestion_avoidance" =>
          congestion_window.num >= slow_start_threshold * congestion_window.den

\* after a timeout, an ack has just carried slow start to the threshold
C27_Witness ==
    /\ last_call.op = "on_ack_received"
    /\ state = "congestion_avoidance"
    /\ retransmissions > 0
    /\ congestion_window.den = 1
    /\ congestion_window.num = slow_start_threshold


\* C29: an update whose detection result is stable never lowers the bitrate:
\* when congestion_detected is false after update_network_stats, current_bitrate
\* is at least what it was before the call.
C29_StableNeverLowers ==
    [][(last_call'.op = "update_network_stats" /\ ~congestion_detected') =>
           current_bitrate' >= current_bitrate
      ]_vars


\* C29 (amended): an update whose detection result is stable lowers the bitrate
\* only toward a target that an earlier congestion left below it: if
\* target_bitrate after the update is at least the current_bitrate before it,
\* current_bitrate does not decrease; otherwise it ends between that target and
\* its previous value.
C29_StableFollowsTarget ==
    [][(last_call'.op = "update_network_stats" /\ ~congestion_detected') =>
           IF target_bitrate' >= current_bitrate
           THEN current_bitrate' >= current_bitrate
           ELSE /\ target_bitrate' <= current_bitrate'
                /\ current_bitrate' <= current_bitrate
      ]_vars

\* the update after a jitter episode: detection is back to stable, the target of
\* the episode (2806235) is still in place and the bitrate has been pulled from
\* 3367482 down to 3255232
C29_Witness ==
    /\ last_call.op = "update_network_stats"
    /\ ~congestion_detected
    /\ network_state = "stable"
    /\ Len(stats_window) = 11
    /\ target_bitrate = 2806235
    /\ current_bitrate = 3255232


\* C30: when acks keep arriving and losses stop (a connection has finitely many
\* of them), the controller eventually is in congestion_avoidance for good; and
\* no ack ever takes it out of congestion_avoidance.
C30_AcksReachAvoidance ==
    /\ <>[](state = "congestion_avoidance")
    /\ [][(state = "congestion_avoidance" /\ last_call'.op = "on_ack_received") =>
              state' = "congestion_avoidance"]_vars

\* after the timeout at the initial window, 499 acks have carried slow start
\* from 1 to the threshold 500 and into congestion_avoidance
C30_Witness ==
    /\ last_call.op = "on_ack_received"
    /\ state = "congestion_avoidance"
    /\ retransmissions = 1
    /\ transport_events = 1
    /\ slow_start_threshold = 500
    /\ congestion_window = [num |-> 500, den |-> 1]

=============================================================================
